---- MODULE Spec2Model ----
(***************************************************************************)
(* Bounded MPMC channel of src/flavors/array.rs (Vyukov's bounded queue    *)
(* extended with blocking and close).  Every load, store, swap and         *)
(* compare-exchange of a shared atomic is one step of the calling thread;  *)
(* each waker-registry call is one step (the registry is a mutex-guarded   *)
(* collaborator).  Stamps are words of `word` values under wrapping        *)
(* arithmetic.                                                             *)
(***************************************************************************)
EXTENDS Integers, Sequences, FiniteSets, TLC

\* ------------------------------------------------------------------ bounds
NThreads == 2
MaxCap == 3
MaxSends == 3
MaxRecvs == 2
MaxCloses == 1
MaxLens == 1
FillSends == 2
FillRecvs == 1
LiveCap == 1
LiveSends == 2
LiveRecvs == 1
DropCap == 3
DropSends == 4
DropRecvs == 2
ManyCloses == 2
WrapBits == 3
WrapCap == 1
WrapSends == 5
WrapRecvs == 3
WordBits == 6

Threads == 1..NThreads
Null == -1
NoThread == Null

VARIABLES
    cap,        \* Channel.cap
    one_lap,    \* Channel.one_lap
    word,       \* number of values of the machine word (usize), 2^WordBits
    head,       \* Channel.head
    tail,       \* Channel.tail
    buffer,     \* Channel.buffer: index -> [stamp, msg]
    is_closed,  \* Channel.is_closed
    senders,    \* Channel.senders: the registered entries, oldest first
    receivers,  \* Channel.receivers
    select,     \* each thread's Context.select
    th,         \* each thread's position and locals
    budget,     \* calls still allowed, per kind of operation
    alive,      \* the channel has not been dropped
    destroyed,  \* the slots whose message Drop destroyed, in its order
    sendLog,    \* history: [id, stamp] of every won tail CAS, in order
    recvLog,    \* history: head stamp of every won head CAS, in order
    rcvd,       \* history: [id, stamp] of every message read moved out of its
                \* slot, stamp being the head stamp its receiver won
    committed,  \* history: ids whose slot stamp has been published by write
    solo,       \* history: the thread running alone since a quiescent state
    ret,        \* history: the call that returned in the last step, if any
    disconnected \* history: a recv or try_recv has returned Disconnected

chan == <<cap, one_lap, word, alive, destroyed>>
ring == <<head, tail, buffer>>
wakers == <<senders, receivers, select>>
hist == <<sendLog, recvLog, rcvd, committed>>
vars == <<cap, one_lap, word, head, tail, buffer, is_closed, senders, receivers,
          select, th, budget, alive, destroyed, sendLog, recvLog, rcvd, committed,
          solo, ret, disconnected>>

\* ------------------------------------------------------------ word arithmetic
RECURSIVE Pow2(_)
Pow2(n) == IF n = 0 THEN 1 ELSE 2 * Pow2(n - 1)

RECURSIVE NextPow2From(_, _)
NextPow2From(p, n) == IF p >= n THEN p ELSE NextPow2From(2 * p, n)

next_power_of_two(n) == NextPow2From(1, n)

wrapping_add(a, b) == (a + b) % word

Index(s) == s % one_lap

LapOf(s) == s - (s % one_lap)

\* (mutant) len() wraps at one_lap instead of cap
LenAtOneLap(h, t) ==
    LET hix == Index(h)
        tix == Index(t)
    IN  IF hix < tix THEN tix - hix
        ELSE IF hix > tix THEN one_lap - hix + tix
        ELSE IF wrapping_add(t, one_lap) = h THEN 0
        ELSE cap

\* len(): the queued messages, from a head and a tail
LenAt(h, t) ==
    LET hix == Index(h)
        tix == Index(t)
    IN  IF hix < tix THEN tix - hix
        ELSE IF hix > tix THEN cap - hix + tix
        ELSE IF wrapping_add(t, one_lap) = h THEN 0
        ELSE cap

\* (mutant) the tail never wraps to the next lap
new_tail_no_wrap(pos) == wrapping_add(pos, 1)

\* (mutant) the tail wraps one slot early
new_tail_early(pos) ==
    IF Index(pos) + 2 < cap
        THEN pos + 1
        ELSE wrapping_add(LapOf(pos), (one_lap * 2) % word)

\* start_send: same lap and the next index, or two laps forward at index 0
new_tail(pos) ==
    IF Index(pos) + 1 < cap
        THEN pos + 1
        ELSE wrapping_add(LapOf(pos), (one_lap * 2) % word)

\* (mutant) the head wraps one lap forward instead of two
new_head_one_lap(pos) ==
    IF Index(pos) + 1 < cap
        THEN pos + 1
        ELSE wrapping_add(LapOf(pos), one_lap)

\* start_recv: the same step for the head
new_head(pos) ==
    IF Index(pos) + 1 < cap
        THEN pos + 1
        ELSE wrapping_add(LapOf(pos), (one_lap * 2) % word)

\* (mutant) start_send goes on without looking at the closed flag
StartSendUnchecked(r) == [r EXCEPT !.pc = "ss_tail"]

\* (mutant) empty whenever the slot lags one lap
IsEmptyAlways(h, t) == TRUE

\* (mutant) is_full compares the indices only
IsFullAtAnyLap(h, t) == Index(h) = Index(t)

IsFullAt(h, t) == wrapping_add(h, one_lap) = t

IsEmptyAt(h, t) == wrapping_add(t, one_lap) = h

\* (mutant) a store in place of the compare-exchange
CasWinsAlways(now, expected) == TRUE

\* compare_exchange_weak(current, new) succeeds only on the value it expects
CasWins(now, expected) == now = expected

\* (mutant) the token's stamp is the next index of the same lap
TokenStampNextIndex(stamp) == wrapping_add(stamp, 1)

TokenStamp(stamp) == wrapping_add(stamp, one_lap)

LagsOneLap(stamp, pos) == wrapping_add(stamp, one_lap) = pos

\* ------------------------------------------------------------ waker registry
Remove(q, t) == SelectSeq(q, LAMBDA e : e # t)

InReg(q, t) == \E i \in 1..Len(q) : q[i] = t

\* The oldest entry whose context has nothing selected yet, or 0.
FirstWakeable(q) ==
    LET c == {i \in 1..Len(q) : select[q[i]] = "Waiting"}
    IN  IF c = {} THEN 0 ELSE CHOOSE i \in c : \A j \in c : i <= j

\* wake_one: select that entry's operation, wake its thread ...
WakeOneSelect(q) ==
    LET i == FirstWakeable(q)
    IN  IF i = 0 THEN select ELSE [select EXCEPT ![q[i]] = "Operation"]

\* ... and remove the entry from the registry.
WakeOneQueue(q) ==
    LET i == FirstWakeable(q)
    IN  IF i = 0 THEN q ELSE Remove(q, q[i])

\* close: every registered context with nothing selected yet is selected
\* Closed and its thread woken; the entries stay registered.
CloseSelect(q, sel) ==
    [u \in Threads |->
        IF InReg(q, u) /\ sel[u] = "Waiting" THEN "Closed" ELSE sel[u]]

\* ------------------------------------------------------------ thread records
IdleRec ==
    [pc |-> "idle", op |-> "none", msg |-> 0, head |-> 0, tail |-> 0,
     stamp |-> 0, slot |-> Null, tstamp |-> 0, res |-> "none", rmsg |-> 0,
     cc |-> FALSE]

\* Between calls.
Idle(u) == th[u].pc = "idle"

\* Blocked in wait_until with nothing selected yet.
Parked(u) == th[u].pc \in {"s_wait", "r_wait"} /\ select[u] = "Waiting"

Quiescent(t) == \A u \in Threads \ {t} : Idle(u) \/ Parked(u)

\* Messages whose write has published the stamp and that no read has moved
\* out of the slot yet.
Queued == committed \ {rcvd[i].id : i \in 1..Len(rcvd)}

\* No solo run; a solo run keeps what held of the channel when it began:
\* no other operation in flight, is_full(), the number of queued messages.
NoSolo == [t |-> NoThread, q |-> FALSE, cf |-> FALSE, cq |-> 0]

NoRet ==
    [t |-> NoThread, op |-> "none", res |-> "none", msg |-> 0, cc |-> FALSE,
     solo |-> FALSE, q |-> FALSE, cf |-> FALSE, cq |-> 0]

\* The locals of start_send/start_recv are dead once it returns.
Fresh(r) == [r EXCEPT !.head = 0, !.tail = 0, !.stamp = 0]

\* The operation returns res (and the message m it hands back, if any).
Done(r, res, m) == [r EXCEPT !.pc = "done", !.res = res, !.rmsg = m]

\* Thread t moves to r and the solo run goes on with so.  A thread that
\* returns is idle again, and what it returned is recorded for the one state
\* that follows.
Move(t, r, so) ==
    /\ th' = [th EXCEPT ![t] = IF r.pc = "done" THEN IdleRec ELSE r]
    /\ solo' = so
    /\ ret' = IF r.pc = "done"
                THEN [t |-> t, op |-> r.op, res |-> r.res, msg |-> r.rmsg,
                      cc |-> r.cc, solo |-> (so.t = t), q |-> so.q,
                      cf |-> so.cf, cq |-> so.cq]
                ELSE NoRet
    /\ disconnected' =
            (\/ disconnected
             \/ r.pc = "done" /\ r.op \in {"recv", "try_recv"}
                    /\ r.res = "Disconnected")

\* A step of thread t: the solo run of another thread is over.
Set(t, r) == Move(t, r, IF solo.t = t THEN solo ELSE NoSolo)

\* A call by thread t: it runs solo until another thread takes a step.
SetCall(t, r) ==
    Move(t, r, [t |-> t, q |-> Quiescent(t), cf |-> IsFullAt(head, tail),
                cq |-> Cardinality(Queued)])

\* ------------------------------------------------------------------- Init
\* with_capacity(cap) for each capacity, and the calls that may follow.
ConstructWord(bits, caps, calls) ==
    /\ word = Pow2(bits)
    /\ cap \in caps
    /\ cap > 0
    /\ cap <= (word - 1) \div 4
    /\ one_lap = next_power_of_two(cap)
    /\ head = one_lap
    /\ tail = 0
    /\ buffer = [i \in 0..(cap - 1) |-> [stamp |-> i, msg |-> 0]]
    /\ is_closed = FALSE
    /\ senders = <<>>
    /\ receivers = <<>>
    /\ select = [t \in Threads |-> "Waiting"]
    /\ th = [t \in Threads |-> IdleRec]
    /\ budget = calls[cap]
    /\ alive = TRUE
    /\ destroyed = <<>>
    /\ disconnected = FALSE
    /\ sendLog = <<>>
    /\ recvLog = <<>>
    /\ rcvd = <<>>
    /\ committed = {}
    /\ solo = NoSolo
    /\ ret = NoRet

\* The machine word of the runs that stay clear of its overflow.
Construct(caps, calls) == ConstructWord(WordBits, caps, calls)

\* Every thread may make every kind of call.
AnyThread ==
    [send |-> Threads, recv |-> Threads, close |-> Threads, len |-> Threads]

\* One thread sends, closes and asks the length, the others send and receive.
SplitThreads ==
    [send |-> Threads, recv |-> Threads \ {1}, close |-> {1}, len |-> {1}]

\* Any calls, up to Max... of each kind.
AnyCalls ==
    [c \in 1..MaxCap |->
        [send |-> MaxSends, recv |-> MaxRecvs, close |-> MaxCloses,
         len |-> MaxLens, sent |-> 0, who |-> AnyThread]]

\* Enough sends to fill the channel and go on after a receive.
FillCalls ==
    [c \in 1..MaxCap |->
        [send |-> c + FillSends, recv |-> FillRecvs, close |-> MaxCloses,
         len |-> MaxLens, sent |-> 0, who |-> AnyThread]]

\* The calls of the runs in which progress is at stake.
LiveCalls ==
    [c \in 1..LiveCap |->
        [send |-> LiveSends, recv |-> LiveRecvs, close |-> MaxCloses,
         len |-> MaxLens, sent |-> 0, who |-> AnyThread]]

\* Enough calls for the queued messages to lie across the end of the buffer.
DropCalls ==
    [c \in DropCap..DropCap |->
        [send |-> DropSends, recv |-> DropRecvs, close |-> MaxCloses,
         len |-> MaxLens, sent |-> 0, who |-> AnyThread]]

\* Calls with close more than once.
CloseCalls ==
    [c \in 1..LiveCap |->
        [send |-> LiveSends, recv |-> LiveRecvs, close |-> ManyCloses,
         len |-> MaxLens, sent |-> 0, who |-> AnyThread]]

\* Enough calls on a narrow word for head and tail to overflow it.
WrapCalls ==
    [c \in 1..WrapCap |->
        [send |-> WrapSends, recv |-> WrapRecvs, close |-> MaxCloses,
         len |-> MaxLens, sent |-> 0, who |-> SplitThreads]]

Init == Construct(1..MaxCap, AnyCalls)

WrapInit == ConstructWord(WrapBits, 1..WrapCap, WrapCalls)

CloseInit == Construct(1..LiveCap, CloseCalls)

DropInit == Construct(DropCap..DropCap, DropCalls)

FillInit == Construct(1..MaxCap, FillCalls)

LiveInit == Construct(1..LiveCap, LiveCalls)

\* ------------------------------------------------------------- start_send
\* lines 171-175 and 230-232: start_send on a closed channel yields the null
\* token, for which write hands the message back; otherwise the loop begins
StartSend(r) ==
    IF is_closed
        THEN Done(r, "Disconnected", r.msg)
        ELSE [r EXCEPT !.pc = "ss_tail"]

\* Messages are numbered in the order of the calls that send them.
NextId == budget.sent + 1

\* lines 328-330, 340-346: try_send(msg) or send(msg) is called and start_send
\* loads is_closed
CallSend(t) ==
    /\ alive
    /\ budget.send > 0
    /\ t \in budget.who.send
    /\ Idle(t)
    /\ \E op \in {"send", "try_send"} :
        SetCall(t, StartSend([IdleRec EXCEPT !.op = op, !.msg = NextId, !.cc = is_closed]))
    /\ budget' = [budget EXCEPT !.send = @ - 1, !.sent = @ + 1]
    /\ UNCHANGED <<chan, ring, is_closed, wakers, hist>>

\* line 171, start_send entered again by send's loops
SendCheckClosed(t) ==
    /\ th[t].pc = "ss_closed"
    /\ Set(t, StartSend(th[t]))
    /\ UNCHANGED <<chan, ring, is_closed, wakers, budget, hist>>

\* line 181: let tail = self.tail.load(SeqCst)
SendLoadTail(t) ==
    /\ th[t].pc = "ss_tail"
    /\ Set(t, [th[t] EXCEPT !.pc = "ss_stamp", !.tail = tail])
    /\ UNCHANGED <<chan, ring, is_closed, wakers, budget, hist>>

\* (mutant) start_send tries the tail whatever the stamp of the slot
SendStampUnchecked(t) ==
    /\ th[t].pc = "ss_stamp"
    /\ Set(t, [th[t] EXCEPT !.pc = "ss_cas",
                            !.stamp = buffer[Index(th[t].tail)].stamp])
    /\ UNCHANGED <<chan, ring, is_closed, wakers, budget, hist>>

\* lines 186-190, 213, 223: load the slot's stamp and branch on it
SendLoadStamp(t) ==
    /\ th[t].pc = "ss_stamp"
    /\ LET stamp == buffer[Index(th[t].tail)].stamp
       IN  \/ /\ th[t].tail = stamp
              /\ Set(t, [th[t] EXCEPT !.pc = "ss_cas", !.stamp = stamp])
           \/ /\ th[t].tail # stamp
              /\ LagsOneLap(stamp, th[t].tail)
              /\ Set(t, [th[t] EXCEPT !.pc = "ss_head", !.stamp = stamp])
           \/ /\ th[t].tail # stamp
              /\ ~LagsOneLap(stamp, th[t].tail)
              /\ Set(t, [Fresh(th[t]) EXCEPT !.pc = "ss_tail"])
    /\ UNCHANGED <<chan, ring, is_closed, wakers, budget, hist>>

\* lines 191-211: compare_exchange_weak(tail, new_tail), won: the token
SendCasTail(t) ==
    /\ th[t].pc = "ss_cas"
    /\ CasWins(tail, th[t].tail)
    /\ tail' = new_tail(th[t].tail)
    /\ Set(t, [Fresh(th[t]) EXCEPT !.pc = "write",
                    !.slot = Index(th[t].tail),
                    !.tstamp = TokenStamp(th[t].stamp)])
    /\ sendLog' = Append(sendLog, [id |-> th[t].msg, stamp |-> th[t].tail])
    /\ UNCHANGED <<chan, head, buffer, is_closed, wakers, budget, recvLog,
                   rcvd, committed>>

\* lines 202-205, 223: the compare-exchange fails (the tail moved, or the weak
\* exchange failed spuriously) and the loop spins
SendCasFail(t) ==
    /\ th[t].pc = "ss_cas"
    /\ Set(t, [Fresh(th[t]) EXCEPT !.pc = "ss_tail"])
    /\ UNCHANGED <<chan, ring, is_closed, wakers, budget, hist>>

\* (mutant) a try_send that finds the channel full goes on to park
SendLoadHeadParks(t) ==
    /\ th[t].pc = "ss_head"
    /\ \/ /\ IsFullAt(head, th[t].tail)
          /\ Set(t, [Fresh(th[t]) EXCEPT !.pc = "ss_closed"])
       \/ /\ IsFullAt(head, th[t].tail)
          /\ Set(t, [Fresh(th[t]) EXCEPT !.pc = "s_register"])
       \/ /\ ~IsFullAt(head, th[t].tail)
          /\ Set(t, [Fresh(th[t]) EXCEPT !.pc = "ss_tail"])
    /\ UNCHANGED <<chan, ring, is_closed, wakers, budget, hist>>

\* (mutant) a try_send that finds the channel full wakes a receiver
SendLoadHeadWakes(t) ==
    /\ th[t].pc = "ss_head"
    /\ \/ /\ IsFullAt(head, th[t].tail)
          /\ th[t].op = "try_send"
          /\ select' = WakeOneSelect(receivers)
          /\ receivers' = WakeOneQueue(receivers)
          /\ senders' = senders
          /\ Set(t, Done(th[t], "Full", th[t].msg))
       \/ /\ IsFullAt(head, th[t].tail)
          /\ th[t].op = "send"
          /\ Set(t, [Fresh(th[t]) EXCEPT !.pc = "ss_closed"])
          /\ UNCHANGED wakers
          /\ th[t].op = "send"
          /\ Set(t, [Fresh(th[t]) EXCEPT !.pc = "s_register"])
          /\ UNCHANGED wakers
       \/ /\ ~IsFullAt(head, th[t].tail)
          /\ Set(t, [Fresh(th[t]) EXCEPT !.pc = "ss_tail"])
          /\ UNCHANGED wakers
    /\ UNCHANGED <<chan, ring, is_closed, budget, hist>>

\* lines 214-221: slot lags one lap; full iff head lags one lap as well.
\* try_send returns Full (line 335); send's backoff.snooze() (line 351)
\* decides between another start_send and parking
SendLoadHead(t) ==
    /\ th[t].pc = "ss_head"
    /\ \/ /\ IsFullAt(head, th[t].tail)
          /\ th[t].op = "try_send"
          /\ Set(t, Done(th[t], "Full", th[t].msg))
       \/ /\ IsFullAt(head, th[t].tail)
          /\ th[t].op = "send"
          /\ Set(t, [Fresh(th[t]) EXCEPT !.pc = "ss_closed"])
       \/ /\ IsFullAt(head, th[t].tail)
          /\ th[t].op = "send"
          /\ Set(t, [Fresh(th[t]) EXCEPT !.pc = "s_register"])
       \/ /\ ~IsFullAt(head, th[t].tail)
          /\ Set(t, [Fresh(th[t]) EXCEPT !.pc = "ss_tail"])
    /\ UNCHANGED <<chan, ring, is_closed, wakers, budget, hist>>

\* ------------------------------------------------------------------ write
\* lines 234-238: slot.msg.get().write(msg); slot.stamp.store(token.stamp).
\* The message cell is written by the holder of the token only, so the two
\* stores are one step: the stamp store is what other threads can observe.
Write(t) ==
    /\ th[t].pc = "write"
    /\ buffer' = [buffer EXCEPT ![th[t].slot] =
                        [stamp |-> th[t].tstamp, msg |-> th[t].msg]]
    /\ committed' = committed \cup {th[t].msg}
    /\ Set(t, [th[t] EXCEPT !.pc = "w_wake"])
    /\ UNCHANGED <<chan, head, tail, is_closed, wakers, budget, sendLog,
                   recvLog, rcvd>>

\* (mutant) write returns without waking a receiver
WriteNoWake(t) ==
    /\ th[t].pc = "w_wake"
    /\ Set(t, Done(th[t], "Ok", th[t].msg))
    /\ UNCHANGED <<chan, ring, is_closed, wakers, budget, hist>>

\* lines 241-242: self.receivers.wake_one(); Ok(())
WriteWake(t) ==
    /\ th[t].pc = "w_wake"
    /\ select' = WakeOneSelect(receivers)
    /\ receivers' = WakeOneQueue(receivers)
    /\ Set(t, Done(th[t], "Ok", th[t].msg))
    /\ UNCHANGED <<chan, ring, is_closed, senders, budget, hist>>

\* ------------------------------------------------------- send: parking region
\* lines 356-359: Context::with resets the context; senders.register(oper, cx)
SendRegister(t) ==
    /\ th[t].pc = "s_register"
    /\ senders' = Append(senders, t)
    /\ select' = [select EXCEPT ![t] = "Waiting"]
    /\ Set(t, [th[t] EXCEPT !.pc = "s_full_tail"])
    /\ UNCHANGED <<chan, ring, is_closed, receivers, budget, hist>>

\* line 492 (is_full called at line 362): load the tail
SendFullTail(t) ==
    /\ th[t].pc = "s_full_tail"
    /\ Set(t, [th[t] EXCEPT !.pc = "s_full_head", !.tail = tail])
    /\ UNCHANGED <<chan, ring, is_closed, wakers, budget, hist>>

\* lines 493-499, 362: load the head; if !is_full() the parking is cancelled
SendFullHead(t) ==
    /\ th[t].pc = "s_full_head"
    /\ \/ /\ IsFullAt(head, th[t].tail)
          /\ Set(t, [Fresh(th[t]) EXCEPT !.pc = "s_wait"])
       \/ /\ ~IsFullAt(head, th[t].tail)
          /\ Set(t, [Fresh(th[t]) EXCEPT !.pc = "s_abort"])
    /\ UNCHANGED <<chan, ring, is_closed, wakers, budget, hist>>

\* line 363: let _ = cx.try_select(Selected::Aborted)
SendAbort(t) ==
    /\ th[t].pc = "s_abort"
    /\ select' = [select EXCEPT
                    ![t] = IF select[t] = "Waiting" THEN "Aborted" ELSE @]
    /\ Set(t, [th[t] EXCEPT !.pc = "s_wait"])
    /\ UNCHANGED <<chan, ring, is_closed, senders, receivers, budget, hist>>

\* (mutant) send does not unregister after Aborted or Closed
SendWaitKeepsHook(t) ==
    /\ th[t].pc = "s_wait"
    /\ select[t] # "Waiting"
    /\ Set(t, [th[t] EXCEPT !.pc = "ss_closed"])
    /\ UNCHANGED <<chan, ring, is_closed, wakers, budget, hist>>

\* lines 367-375: wait_until(None) returns once the context is selected
SendWait(t) ==
    /\ th[t].pc = "s_wait"
    /\ select[t] # "Waiting"
    /\ \/ /\ select[t] \in {"Aborted", "Closed"}
          /\ Set(t, [th[t] EXCEPT !.pc = "s_unreg"])
       \/ /\ select[t] = "Operation"
          /\ Set(t, [th[t] EXCEPT !.pc = "ss_closed"])
    /\ UNCHANGED <<chan, ring, is_closed, wakers, budget, hist>>

\* line 372: self.senders.unregister(oper).unwrap()
SendUnregister(t) ==
    /\ th[t].pc = "s_unreg"
    /\ IF InReg(senders, t)
        THEN /\ senders' = Remove(senders, t)
             /\ Set(t, [th[t] EXCEPT !.pc = "ss_closed"])
        ELSE /\ senders' = senders
             /\ Set(t, [th[t] EXCEPT !.pc = "panic"])
    /\ UNCHANGED <<chan, ring, is_closed, receivers, select, budget, hist>>

\* ------------------------------------------------------------- start_recv
\* lines 381-384, 394-400: try_recv() or recv() is called and start_recv
\* loads the head (line 251)
CallRecv(t) ==
    /\ alive
    /\ budget.recv > 0
    /\ t \in budget.who.recv
    /\ Idle(t)
    /\ \E op \in {"recv", "try_recv"} :
        SetCall(t, [IdleRec EXCEPT !.op = op, !.pc = "sr_stamp", !.head = head])
    /\ budget' = [budget EXCEPT !.recv = @ - 1]
    /\ UNCHANGED <<chan, ring, is_closed, wakers, hist>>

\* line 251: let head = self.head.load(SeqCst)
RecvLoadHead(t) ==
    /\ th[t].pc = "sr_head"
    /\ Set(t, [th[t] EXCEPT !.pc = "sr_stamp", !.head = head])
    /\ UNCHANGED <<chan, ring, is_closed, wakers, budget, hist>>

\* (mutant) start_recv tries the head whatever the stamp of the slot
RecvStampUnchecked(t) ==
    /\ th[t].pc = "sr_stamp"
    /\ Set(t, [th[t] EXCEPT !.pc = "sr_cas",
                            !.stamp = buffer[Index(th[t].head)].stamp])
    /\ UNCHANGED <<chan, ring, is_closed, wakers, budget, hist>>

\* lines 256-260, 283, 305: load the slot's stamp and branch on it
RecvLoadStamp(t) ==
    /\ th[t].pc = "sr_stamp"
    /\ LET stamp == buffer[Index(th[t].head)].stamp
       IN  \/ /\ th[t].head = stamp
              /\ Set(t, [th[t] EXCEPT !.pc = "sr_cas", !.stamp = stamp])
           \/ /\ th[t].head # stamp
              /\ LagsOneLap(stamp, th[t].head)
              /\ Set(t, [th[t] EXCEPT !.pc = "sr_tail", !.stamp = stamp])
           \/ /\ th[t].head # stamp
              /\ ~LagsOneLap(stamp, th[t].head)
              /\ Set(t, [Fresh(th[t]) EXCEPT !.pc = "sr_head"])
    /\ UNCHANGED <<chan, ring, is_closed, wakers, budget, hist>>

\* lines 261-281: compare_exchange_weak(head, new), won: the token
RecvCasHead(t) ==
    /\ th[t].pc = "sr_cas"
    /\ CasWins(head, th[t].head)
    /\ head' = new_head(th[t].head)
    /\ Set(t, [Fresh(th[t]) EXCEPT !.pc = "read",
                    !.slot = Index(th[t].head),
                    !.tstamp = TokenStamp(th[t].stamp)])
    /\ recvLog' = Append(recvLog, th[t].head)
    /\ UNCHANGED <<chan, tail, buffer, is_closed, wakers, budget, sendLog,
                   rcvd, committed>>

\* lines 272-275, 305: the compare-exchange fails and the loop spins
RecvCasFail(t) ==
    /\ th[t].pc = "sr_cas"
    /\ Set(t, [Fresh(th[t]) EXCEPT !.pc = "sr_head"])
    /\ UNCHANGED <<chan, ring, is_closed, wakers, budget, hist>>

\* lines 284-288: slot lags one lap; empty iff tail lags one lap as well
RecvLoadTail(t) ==
    /\ th[t].pc = "sr_tail"
    /\ \/ /\ IsEmptyAt(th[t].head, tail)
          /\ Set(t, [th[t] EXCEPT !.pc = "sr_closed", !.tail = tail])
       \/ /\ ~IsEmptyAt(th[t].head, tail)
          /\ Set(t, [Fresh(th[t]) EXCEPT !.pc = "sr_head"])
    /\ UNCHANGED <<chan, ring, is_closed, wakers, budget, hist>>

\* lines 290, 298-301: empty and open: not ready. try_recv returns Empty
\* (line 389); recv's backoff.snooze() (line 405) decides between another
\* start_recv and parking
RecvCheckClosed(t) ==
    /\ th[t].pc = "sr_closed"
    /\ \/ /\ is_closed
          /\ Set(t, [th[t] EXCEPT !.pc = "sr_retail"])
       \/ /\ ~is_closed
          /\ th[t].op = "try_recv"
          /\ Set(t, Done(th[t], "Empty", 0))
       \/ /\ ~is_closed
          /\ th[t].op = "recv"
          /\ Set(t, [Fresh(th[t]) EXCEPT !.pc = "sr_head"])
       \/ /\ ~is_closed
          /\ th[t].op = "recv"
          /\ Set(t, [Fresh(th[t]) EXCEPT !.pc = "r_register"])
    /\ UNCHANGED <<chan, ring, is_closed, wakers, budget, hist>>

\* lines 292-297 and 311-314: closed and the tail still where it was: the
\* null token, for which read returns the error; otherwise the loop spins
RecvReloadTail(t) ==
    /\ th[t].pc = "sr_retail"
    /\ \/ /\ tail = th[t].tail
          /\ Set(t, Done(th[t], "Disconnected", 0))
       \/ /\ tail # th[t].tail
          /\ Set(t, [Fresh(th[t]) EXCEPT !.pc = "sr_head"])
    /\ UNCHANGED <<chan, ring, is_closed, wakers, budget, hist>>

\* -------------------------------------------------------------------- read
\* lines 316-320: let msg = slot.msg.get().read(); slot.stamp.store(token.stamp).
\* The message cell is read by the holder of the token only, so the load and
\* the stamp store are one step.
Read(t) ==
    /\ th[t].pc = "read"
    /\ buffer' = [buffer EXCEPT ![th[t].slot].stamp = th[t].tstamp]
    /\ Set(t, [th[t] EXCEPT !.pc = "r_wake", !.msg = buffer[th[t].slot].msg])
    /\ rcvd' = Append(rcvd, [id |-> buffer[th[t].slot].msg,
                             stamp |-> wrapping_add(th[t].tstamp,
                                                    word - one_lap)])
    /\ UNCHANGED <<chan, head, tail, is_closed, wakers, budget, sendLog,
                   recvLog, committed>>

\* lines 323-324: self.senders.wake_one(); Ok(msg)
ReadWake(t) ==
    /\ th[t].pc = "r_wake"
    /\ select' = WakeOneSelect(senders)
    /\ senders' = WakeOneQueue(senders)
    /\ Set(t, Done(th[t], "Ok", th[t].msg))
    /\ UNCHANGED <<chan, ring, is_closed, receivers, budget, hist>>

\* ------------------------------------------------------- recv: parking region
\* lines 410-413: Context::with resets the context; receivers.register(oper, cx)
RecvRegister(t) ==
    /\ th[t].pc = "r_register"
    /\ receivers' = Append(receivers, t)
    /\ select' = [select EXCEPT ![t] = "Waiting"]
    /\ Set(t, [th[t] EXCEPT !.pc = "r_empty_head"])
    /\ UNCHANGED <<chan, ring, is_closed, senders, budget, hist>>

\* line 480 (is_empty called at line 416): load the head
RecvEmptyHead(t) ==
    /\ th[t].pc = "r_empty_head"
    /\ Set(t, [th[t] EXCEPT !.pc = "r_empty_tail", !.head = head])
    /\ UNCHANGED <<chan, ring, is_closed, wakers, budget, hist>>

\* lines 481-487, 416: load the tail; !is_empty() cancels the parking
RecvEmptyTail(t) ==
    /\ th[t].pc = "r_empty_tail"
    /\ \/ /\ IsEmptyAt(th[t].head, tail)
          /\ Set(t, [Fresh(th[t]) EXCEPT !.pc = "r_closed"])
       \/ /\ ~IsEmptyAt(th[t].head, tail)
          /\ Set(t, [Fresh(th[t]) EXCEPT !.pc = "r_abort"])
    /\ UNCHANGED <<chan, ring, is_closed, wakers, budget, hist>>

\* (mutant) the re-check of recv does not look at the closed flag
RecvRecheckSkipsClosed(t) ==
    /\ th[t].pc = "r_closed"
    /\ Set(t, [th[t] EXCEPT !.pc = "r_wait"])
    /\ UNCHANGED <<chan, ring, is_closed, wakers, budget, hist>>

\* line 416: ... || self.is_closed()
RecvRecheckClosed(t) ==
    /\ th[t].pc = "r_closed"
    /\ \/ /\ is_closed
          /\ Set(t, [th[t] EXCEPT !.pc = "r_abort"])
       \/ /\ ~is_closed
          /\ Set(t, [th[t] EXCEPT !.pc = "r_wait"])
    /\ UNCHANGED <<chan, ring, is_closed, wakers, budget, hist>>

\* line 417: let _ = cx.try_select(Selected::Aborted)
RecvAbort(t) ==
    /\ th[t].pc = "r_abort"
    /\ select' = [select EXCEPT
                    ![t] = IF select[t] = "Waiting" THEN "Aborted" ELSE @]
    /\ Set(t, [th[t] EXCEPT !.pc = "r_wait"])
    /\ UNCHANGED <<chan, ring, is_closed, senders, receivers, budget, hist>>

\* lines 421-430: wait_until(None) returns once the context is selected
RecvWait(t) ==
    /\ th[t].pc = "r_wait"
    /\ select[t] # "Waiting"
    /\ \/ /\ select[t] \in {"Aborted", "Closed"}
          /\ Set(t, [th[t] EXCEPT !.pc = "r_unreg"])
       \/ /\ select[t] = "Operation"
          /\ Set(t, [th[t] EXCEPT !.pc = "sr_head"])
    /\ UNCHANGED <<chan, ring, is_closed, wakers, budget, hist>>

\* line 426: self.receivers.unregister(oper).unwrap()
RecvUnregister(t) ==
    /\ th[t].pc = "r_unreg"
    /\ IF InReg(receivers, t)
        THEN /\ receivers' = Remove(receivers, t)
             /\ Set(t, [th[t] EXCEPT !.pc = "sr_head"])
        ELSE /\ receivers' = receivers
             /\ Set(t, [th[t] EXCEPT !.pc = "panic"])
    /\ UNCHANGED <<chan, ring, is_closed, senders, select, budget, hist>>

\* (mutant) close closes the registries whatever the swap returned
CallCloseAlways(t) ==
    /\ alive
    /\ budget.close > 0
    /\ t \in budget.who.close
    /\ Idle(t)
    /\ is_closed' = TRUE
    /\ SetCall(t, [IdleRec EXCEPT !.op = "close", !.pc = "c_senders"])
    /\ budget' = [budget EXCEPT !.close = @ - 1]
    /\ UNCHANGED <<chan, ring, wakers, hist>>

\* ------------------------------------------------------------------- close
\* lines 466-467: close() is called; if !self.is_closed.swap(true, SeqCst)
CallClose(t) ==
    /\ alive
    /\ budget.close > 0
    /\ t \in budget.who.close
    /\ Idle(t)
    /\ is_closed' = TRUE
    /\ \/ /\ ~is_closed
          /\ SetCall(t, [IdleRec EXCEPT !.op = "close", !.pc = "c_senders"])
       \/ /\ is_closed
          /\ SetCall(t, Done([IdleRec EXCEPT !.op = "close"], "Unit", 0))
    /\ budget' = [budget EXCEPT !.close = @ - 1]
    /\ UNCHANGED <<chan, ring, wakers, hist>>

\* line 468: self.senders.close()
CloseSenders(t) ==
    /\ th[t].pc = "c_senders"
    /\ select' = CloseSelect(senders, select)
    /\ Set(t, [th[t] EXCEPT !.pc = "c_receivers"])
    /\ UNCHANGED <<chan, ring, is_closed, senders, receivers, budget, hist>>

\* line 469: self.receivers.close()
CloseReceivers(t) ==
    /\ th[t].pc = "c_receivers"
    /\ select' = CloseSelect(receivers, select)
    /\ Set(t, Done(th[t], "Unit", 0))
    /\ UNCHANGED <<chan, ring, is_closed, senders, receivers, budget, hist>>

\* --------------------------------------------------------------------- len
\* lines 436-439: len() is called and loads the tail
CallLen(t) ==
    /\ alive
    /\ budget.len > 0
    /\ t \in budget.who.len
    /\ Idle(t)
    /\ SetCall(t, [IdleRec EXCEPT !.op = "len", !.pc = "l_head", !.tail = tail])
    /\ budget' = [budget EXCEPT !.len = @ - 1]
    /\ UNCHANGED <<chan, ring, is_closed, wakers, hist>>

\* line 439: let tail = self.tail.load(SeqCst), after a failed re-read
LenLoadTail(t) ==
    /\ th[t].pc = "l_tail"
    /\ Set(t, [th[t] EXCEPT !.pc = "l_head", !.tail = tail])
    /\ UNCHANGED <<chan, ring, is_closed, wakers, budget, hist>>

\* line 440: let head = self.head.load(SeqCst)
LenLoadHead(t) ==
    /\ th[t].pc = "l_head"
    /\ Set(t, [th[t] EXCEPT !.pc = "l_retail", !.head = head])
    /\ UNCHANGED <<chan, ring, is_closed, wakers, budget, hist>>

\* lines 443-456: if the tail didn't change, compute the length; else loop
LenReloadTail(t) ==
    /\ th[t].pc = "l_retail"
    /\ \/ /\ tail = th[t].tail
          /\ Set(t, Done(th[t], "Len", LenAt(th[t].head, th[t].tail)))
       \/ /\ tail # th[t].tail
          /\ Set(t, [Fresh(th[t]) EXCEPT !.pc = "l_tail"])
    /\ UNCHANGED <<chan, ring, is_closed, wakers, budget, hist>>

\* -------------------------------------------------------------------- Next
\* ------------------------------------------------------------------- drop
\* (mutant) the slots to destroy wrap at one_lap
DropIndexOneLap(hix, i) == IF hix + i < one_lap THEN hix + i ELSE hix + i - one_lap

\* lines 511-515: the index of the i-th slot holding a message
DropIndex(hix, i) == IF hix + i < cap THEN hix + i ELSE hix + i - cap

\* lines 503-527: the channel is dropped, which takes that no thread is
\* inside one of its methods; it destroys the message of len() slots from
\* the index of the head on
Drop ==
    /\ alive
    /\ \A t \in Threads : Idle(t)
    /\ alive' = FALSE
    /\ destroyed' = [i \in 1..LenAt(head, tail) |->
                        DropIndex(Index(head), i - 1)]
    /\ solo' = NoSolo
    /\ ret' = NoRet
    /\ disconnected' = disconnected
    /\ UNCHANGED <<cap, one_lap, word, ring, is_closed, wakers, th, budget,
                   hist>>

Next ==
    \/ Drop
    \/ \E t \in Threads :
        \/ CallSend(t) \/ CallRecv(t) \/ CallClose(t) \/ CallLen(t)
        \/ SendCheckClosed(t) \/ SendLoadTail(t) \/ SendLoadStamp(t)
        \/ SendCasTail(t) \/ SendCasFail(t) \/ SendLoadHead(t)
        \/ Write(t) \/ WriteWake(t)
        \/ SendRegister(t) \/ SendFullTail(t) \/ SendFullHead(t)
        \/ SendAbort(t) \/ SendWait(t) \/ SendUnregister(t)
        \/ RecvLoadHead(t) \/ RecvLoadStamp(t) \/ RecvCasHead(t)
        \/ RecvCasFail(t) \/ RecvLoadTail(t) \/ RecvCheckClosed(t)
        \/ RecvReloadTail(t) \/ Read(t) \/ ReadWake(t)
        \/ RecvRegister(t) \/ RecvEmptyHead(t) \/ RecvEmptyTail(t)
        \/ RecvRecheckClosed(t) \/ RecvAbort(t) \/ RecvWait(t)
        \/ RecvUnregister(t)
        \/ CloseSenders(t) \/ CloseReceivers(t)
        \/ LenLoadTail(t) \/ LenLoadHead(t) \/ LenReloadTail(t)

Spec == Init /\ [][Next]_vars

FillSpec == FillInit /\ [][Next]_vars

DropSpec == DropInit /\ [][Next]_vars

CloseSpec == CloseInit /\ [][Next]_vars

WrapSpec == WrapInit /\ [][Next]_vars

\* The steps of thread t inside a call it has made.
Run(t) ==
    \/ SendCheckClosed(t) \/ SendLoadTail(t) \/ SendLoadStamp(t)
    \/ SendCasTail(t) \/ SendCasFail(t) \/ SendLoadHead(t)
    \/ Write(t) \/ WriteWake(t)
    \/ SendRegister(t) \/ SendFullTail(t) \/ SendFullHead(t)
    \/ SendAbort(t) \/ SendWait(t) \/ SendUnregister(t)
    \/ RecvLoadHead(t) \/ RecvLoadStamp(t) \/ RecvCasHead(t)
    \/ RecvCasFail(t) \/ RecvLoadTail(t) \/ RecvCheckClosed(t)
    \/ RecvReloadTail(t) \/ Read(t) \/ ReadWake(t)
    \/ RecvRegister(t) \/ RecvEmptyHead(t) \/ RecvEmptyTail(t)
    \/ RecvRecheckClosed(t) \/ RecvAbort(t) \/ RecvWait(t)
    \/ RecvUnregister(t)
    \/ CloseSenders(t) \/ CloseReceivers(t)
    \/ LenLoadTail(t) \/ LenLoadHead(t) \/ LenReloadTail(t)

\* Every thread that is inside a call and not parked keeps running, and a
\* compare-exchange that could win does not fail forever; nothing obliges a
\* thread to make another call.
Fairness ==
    \A t \in Threads :
        /\ WF_vars(Run(t))
        /\ SF_vars(SendCasTail(t))
        /\ SF_vars(RecvCasHead(t))

LiveSpec == LiveInit /\ [][Next]_vars /\ Fairness

\* ================================================================ claims
Ids(log) == {log[i].id : i \in 1..Len(log)}

SendOps == {"send", "try_send"}

RecvOps == {"recv", "try_recv"}

\* The message id is in the slot it was sent to, under the stamp its write
\* published.
InChannel(id) ==
    \E k \in 1..Len(sendLog) :
        /\ sendLog[k].id = id
        /\ buffer[Index(sendLog[k].stamp)] =
                [stamp |-> wrapping_add(sendLog[k].stamp, one_lap), msg |-> id]

\* C1: every message a receive returns was written by a send that returns
\* Ok, a send that fails is never received, no message is received twice,
\* the receiver that gets the message sent under tail stamp s is the one
\* whose head CAS won s + one_lap (and only that one), and a sent message
\* not yet received is still in the channel.
C1_ExactlyOnce ==
    /\ Ids(rcvd) \subseteq committed
    /\ committed \subseteq Ids(sendLog)
    /\ (ret.op \in RecvOps /\ ret.res = "Ok") => ret.msg \in Ids(rcvd)
    /\ \A t \in Threads : th[t].pc = "r_wake" => th[t].msg \in Ids(rcvd)
    /\ (ret.op \in SendOps /\ ret.res = "Ok") => ret.msg \in committed
    /\ \A t \in Threads : th[t].pc = "w_wake" => th[t].msg \in committed
    /\ (ret.op \in SendOps /\ ret.res # "Ok") =>
            ret.msg \notin Ids(sendLog) \cup Ids(rcvd)
    /\ \A i, j \in 1..Len(rcvd) :
            i # j => rcvd[i].id # rcvd[j].id /\ rcvd[i].stamp # rcvd[j].stamp
    /\ \A i, j \in 1..Len(recvLog) : i # j => recvLog[i] # recvLog[j]
    /\ \A i \in 1..Len(rcvd) :
            /\ \E k \in 1..Len(sendLog) :
                    /\ sendLog[k].id = rcvd[i].id
                    /\ wrapping_add(sendLog[k].stamp, one_lap) = rcvd[i].stamp
            /\ \E k \in 1..Len(recvLog) : recvLog[k] = rcvd[i].stamp
    /\ \A id \in Queued : InChannel(id)

\* Two messages were received while a third is still queued.
C1_Witness == Len(rcvd) = 2 /\ Cardinality(Queued) = 1

\* C2: the k-th won head CAS reserves the slot of the k-th won tail CAS, so
\* receives reserve the messages in the order the sends were linearized, and
\* the message a receiver returns is the one of the send it is matched with.
C2_Fifo ==
    /\ Len(recvLog) <= Len(sendLog)
    /\ \A k \in 1..Len(recvLog) :
            recvLog[k] = wrapping_add(sendLog[k].stamp, one_lap)
    /\ \A i \in 1..Len(rcvd) :
            \E k \in 1..Len(recvLog) :
                rcvd[i] = [id |-> sendLog[k].id, stamp |-> recvLog[k]]

\* Two sends raced (the later call won the tail first) and both messages
\* were received.
C2_Witness ==
    /\ Len(sendLog) >= 2
    /\ sendLog[1].id > sendLog[2].id
    /\ Len(rcvd) = 2

\* C3: the channel never holds more than cap messages, and a try_send that
\* runs on an open channel with no other operation in flight returns Ok if
\* fewer than cap messages are queued and Full if cap are.
C3_HonorsCap ==
    /\ Cardinality(Queued) <= cap
    /\ Len(sendLog) - Len(recvLog) <= cap
    /\ (ret.op = "try_send" /\ ret.solo /\ ret.q /\ ~is_closed) =>
            /\ ret.cq < cap => ret.res = "Ok"
            /\ ret.cq = cap => ret.res = "Full"
            /\ ret.cq <= cap

\* Capacity 3 (not a power of two): the channel was full, one message was
\* received, and the next try_send, the fourth to succeed, returns Ok.
C3_Witness ==
    /\ cap = 3
    /\ ret.op = "try_send" /\ ret.solo /\ ret.q /\ ret.res = "Ok"
    /\ ret.cq = cap - 1
    /\ Len(sendLog) = cap + 1
    /\ Len(rcvd) = 1

\* Capacity 2: try_send on the full channel returns Full.
C3_WitnessFull ==
    /\ cap = 2
    /\ ret.op = "try_send" /\ ret.solo /\ ret.q
    /\ ret.res = "Full" /\ ret.cq = cap

\* C4: once the channel is closed, every thread inside recv() returns: the
\* queued message if one is left for it, Disconnected otherwise. This covers
\* the receiver parked before the close and the one between its failed
\* start_recv and its parking.
C4_RecvReturnsAfterClose ==
    \A t \in Threads : (is_closed /\ th[t].op = "recv") ~> Idle(t)

\* A receiver parked before the close has been selected Closed by it.
C4_Witness ==
    \E t \in Threads :
        /\ th[t].op = "recv" /\ th[t].pc = "r_wait"
        /\ select[t] = "Closed" /\ is_closed

\* A receiver registered after the close sees the flag in its re-check.
C4_WitnessRecheck ==
    \E t \in Threads :
        /\ th[t].op = "recv" /\ th[t].pc = "r_abort" /\ is_closed
        /\ \A u \in Threads : th[u].pc \notin {"c_senders", "c_receivers"}

\* C5: no sender stays parked in send() on the closed channel with every
\* other thread between calls, where only a receive could still wake it.
C5_NoSenderLeftParked ==
    ~ \E t \in Threads :
        /\ is_closed
        /\ th[t].op = "send" /\ Parked(t)
        /\ \A u \in Threads \ {t} : Idle(u)

\* C5 in its temporal form: once the channel is closed, every thread inside
\* send() returns.
C5_SendReturnsAfterClose ==
    \A t \in Threads : (is_closed /\ th[t].op = "send") ~> Idle(t)

\* C6: on the open channel there is no state in which a thread is parked in
\* recv() while a committed message has not been received, or parked in
\* send() while a slot is free, and every other thread is between calls or
\* parked, so that nobody is left to wake it.
C6_NoLostWakeup ==
    ~is_closed =>
        \A t \in Threads :
            (Parked(t) /\ Quiescent(t)) =>
                /\ th[t].op = "recv" => Queued = {} /\ IsEmptyAt(head, tail)
                /\ th[t].op = "send" => IsFullAt(head, tail)

\* The same as progress: a receiver parked while the channel is not empty,
\* or a sender parked while it is not full, is woken, unless another thread
\* takes the message or fills the slot, or closes the channel, first.
C6_EventuallyWoken ==
    \A t \in Threads :
        /\ (~is_closed /\ th[t].op = "recv" /\ Parked(t)
                /\ ~IsEmptyAt(head, tail)) ~>
                    (~Parked(t) \/ IsEmptyAt(head, tail) \/ is_closed)
        /\ (~is_closed /\ th[t].op = "send" /\ Parked(t)
                /\ ~IsFullAt(head, tail)) ~>
                    (~Parked(t) \/ IsFullAt(head, tail) \/ is_closed)

\* A receiver that parked has been selected by the wake_one of a write.
C6_Witness ==
    \E t \in Threads :
        /\ th[t].op = "recv" /\ th[t].pc = "r_wait"
        /\ select[t] = "Operation" /\ ~is_closed /\ Queued # {}

\* A sender that parked has been selected by the wake_one of a read.
C6_WitnessSend ==
    \E t \in Threads :
        /\ th[t].op = "send" /\ th[t].pc = "s_wait"
        /\ select[t] = "Operation" /\ ~is_closed /\ ~IsFullAt(head, tail)

\* C7: a receive returns Disconnected only when the channel is closed and
\* empty (tail + one_lap = head): every send that won the tail has published
\* its stamp and every such message has been reserved by a receive, so no
\* send holds a slot it has not committed.
C7_DisconnectedOnlyWhenDrained ==
    (ret.op \in RecvOps /\ ret.res = "Disconnected") =>
        /\ is_closed
        /\ IsEmptyAt(head, tail)
        /\ Len(recvLog) = Len(sendLog)
        /\ Ids(sendLog) = committed
        /\ \A u \in Threads : th[u].pc # "write"

\* A receive returns Disconnected after a message was received.
C7_Witness ==
    ret.op \in RecvOps /\ ret.res = "Disconnected" /\ Len(rcvd) = 1

\* A recv that began on the closed channel returns a queued message.
C7_WitnessDrain ==
    /\ ret.op = "recv" /\ ret.res = "Ok" /\ ret.solo /\ ret.q /\ is_closed
    /\ \A u \in Threads : Idle(u)

\* C8: a send or try_send called on the closed channel returns Disconnected
\* with the message it was given, and the step leaves head, tail and every
\* slot (stamp and message) as they were.
C8_SendAfterClose ==
    /\ [](ret.op \in SendOps /\ ret.cc =>
            /\ ret.res = "Disconnected"
            /\ ret.msg = budget.sent
            /\ ret.msg \notin Ids(sendLog))
    /\ [][(ret'.op \in SendOps /\ ret'.cc) =>
            (head' = head /\ tail' = tail /\ buffer' = buffer
                /\ sendLog' = sendLog)]_vars

\* A send on the closed and full channel returns Disconnected.
C8_Witness ==
    /\ ret.op = "send" /\ ret.cc /\ ret.res = "Disconnected"
    /\ IsFullAt(head, tail)

\* C9 as stated: whenever is_full() holds, a try_send called in that state,
\* with no step of another thread before it returns, returns Full.
C9_FullImpliesFull ==
    (ret.op = "try_send" /\ ret.solo /\ ret.cf) => ret.res = "Full"

\* C9 amended: the same on a channel that is not closed.
C9_FullImpliesFullWhenOpen ==
    (ret.op = "try_send" /\ ret.solo /\ ret.cf /\ ~is_closed) =>
        ret.res = "Full"

\* try_send returns Full on the open channel, full at capacity 3.
C9_Witness ==
    /\ ret.op = "try_send" /\ ret.solo /\ ret.cf /\ ~is_closed
    /\ ret.res = "Full" /\ cap = 3

\* What len() computes from the head and the tail of the state.
LenNow == LenAt(head, tail)

\* C10 as stated: len() is within 0..cap, grows by one across the stamp store
\* of a write, shrinks by one across the stamp store of a read, and changes
\* at no other step.
C10_LenStepsAtCommit ==
    /\ [](LenNow \in 0..cap /\ (ret.op = "len" => ret.msg \in 0..cap))
    /\ [][/\ committed' # committed => LenNow' = LenNow + 1
          /\ rcvd' # rcvd => LenNow' = LenNow - 1
          /\ (committed' = committed /\ rcvd' = rcvd) => LenNow' = LenNow]_vars

\* C10 amended: len() is within 0..cap, grows by one across a won tail CAS
\* (the reservation of a send), shrinks by one across a won head CAS (the
\* reservation of a receive), and changes at no other step: the stamp stores
\* leave it as it is.
C10_LenStepsAtReservation ==
    /\ [](LenNow \in 0..cap /\ (ret.op = "len" => ret.msg \in 0..cap))
    /\ [][/\ sendLog' # sendLog => LenNow' = LenNow + 1
          /\ recvLog' # recvLog => LenNow' = LenNow - 1
          /\ (sendLog' = sendLog /\ recvLog' = recvLog) => LenNow' = LenNow]_vars

\* len() runs while another thread sends and returns 2 at capacity 3.
C10_Witness ==
    ret.op = "len" /\ ~ret.solo /\ ret.msg = 2 /\ cap = 3

\* The shared state of the channel: head, tail, the slots, the closed flag,
\* both registries and what each context has selected.
shared == <<head, tail, buffer, is_closed, senders, receivers, select>>

\* Thread t holds a slot it has reserved and not yet published.
Reserving(t) == th[t].pc \in {"write", "read"}

\* C11: a try_send that returns Full hands back the message it was given,
\* which never entered the channel, and no step of that call, from the call
\* to the return, changes head, tail, a slot, the closed flag, a registry or
\* what a context has selected: only a call that has won the tail changes
\* them, and such a call does not return Full.
C11_FullHasNoEffect ==
    /\ []((ret.op = "try_send" /\ ret.res = "Full") =>
            /\ ret.msg \in 1..budget.sent
            /\ ret.msg \notin Ids(sendLog) \cup committed)
    /\ [][\A t \in Threads :
            /\ (th[t].op = "try_send" /\ th[t].pc \in {"write", "w_wake"}) =>
                    ~(ret'.t = t /\ ret'.res = "Full")
            /\ (/\ th'[t] # th[t]
                /\ \/ th'[t].op = "try_send" /\ th'[t].pc \notin {"write", "w_wake"}
                   \/ ret'.t = t /\ ret'.op = "try_send" /\ ret'.res = "Full") =>
                    shared' = shared]_vars

\* A try_send returns Full while a receiver is registered and not selected.
C11_Witness ==
    /\ ret.op = "try_send" /\ ret.res = "Full"
    /\ \E u \in Threads : InReg(receivers, u) /\ select[u] = "Waiting"

\* C12: when the channel is dropped, the slots Drop destroys are the slots
\* holding a committed message that was not received, each of them once.
C12_DropDestroysQueued ==
    ~alive =>
        /\ {destroyed[k] : k \in 1..Len(destroyed)}
                = {i \in 0..(cap - 1) : buffer[i].msg \in Queued}
        /\ \A k, l \in 1..Len(destroyed) :
                destroyed[k] = destroyed[l] => k = l
        /\ Len(destroyed) = Cardinality(Queued)

\* A channel of capacity 3 is dropped with two messages queued across the
\* end of the buffer, after one was received.
C12_Witness ==
    /\ ~alive /\ cap = 3 /\ Len(destroyed) = 2 /\ Len(rcvd) >= 1
    /\ destroyed[1] > destroyed[2]

\* Thread t is closing the registries.
Closing(t) == th[t].pc \in {"c_senders", "c_receivers"}

\* C13: the closed flag never goes back to false; a call of close closes the
\* registries only if its swap saw false, so at most one call ever does, and
\* it closes each registry once; no context is selected Closed but by that
\* call; a close whose swap saw true changes nothing.
C13_CloseOnce ==
    /\ [](\A t, u \in Threads : Closing(t) /\ Closing(u) => t = u)
    /\ [][/\ is_closed => is_closed'
          /\ \A t \in Threads :
                /\ (Closing(t)' /\ ~Closing(t)) =>
                        ~is_closed /\ is_closed' /\ th'[t].pc = "c_senders"
                /\ (th[t].pc = "c_senders" /\ th'[t] # th[t]) =>
                        th'[t].pc = "c_receivers"
                /\ (th[t].pc = "c_receivers" /\ th'[t] # th[t]) =>
                        ret'.t = t /\ ret'.op = "close"
                /\ (Idle(t) /\ ret'.t = t /\ ret'.op = "close") =>
                        is_closed /\ shared' = shared
                /\ (select'[t] = "Closed" /\ select[t] # "Closed") =>
                        \E u \in Threads : Closing(u)]_vars

\* A close returns without effect while the close that won the swap is
\* still closing the registries.
C13_Witness ==
    /\ ret.op = "close" /\ is_closed
    /\ \E u \in Threads : u # ret.t /\ Closing(u)

\* The operations that do not block.
TryOps == {"try_send", "try_recv"}

\* The positions of the parking region of send and recv.
ParkingRegion ==
    {"s_register", "s_full_tail", "s_full_head", "s_abort", "s_wait",
     "s_unreg", "r_register", "r_empty_head", "r_empty_tail", "r_closed",
     "r_abort", "r_wait", "r_unreg"}

\* C14: a thread inside try_send or try_recv is never in the parking region
\* and has no entry in a registry, and, every thread inside a call taking
\* its steps, the call returns.
C14_TryNeverSuspends ==
    /\ [](\A t \in Threads :
            th[t].op \in TryOps =>
                /\ th[t].pc \notin ParkingRegion
                /\ ~InReg(senders, t) /\ ~InReg(receivers, t))
    /\ \A t \in Threads : (th[t].op \in TryOps) ~> Idle(t)

\* A try_recv has found the slot of the head reserved by a send that has
\* not yet written it, and spins.
C14_Witness ==
    \E t, u \in Threads :
        /\ th[t].op = "try_recv" /\ th[t].pc = "sr_head"
        /\ th[u].pc = "write" /\ th[u].slot = Index(head)
        /\ ~IsEmptyAt(head, tail)

\* C15: from a won compare-exchange on head or tail to the store of the
\* token's stamp, the thread is the only one holding a token for its slot,
\* and that slot is the one its token names; a receive wins the head only on
\* a slot whose message is written and whose stamp is published, a send wins
\* the tail only on a slot whose previous message was moved out and whose
\* stamp is published.
C15_SlotExclusive ==
    /\ [](\A t, u \in Threads :
            (Reserving(t) /\ Reserving(u) /\ th[t].slot = th[u].slot) => t = u)
    /\ [][\A t \in Threads :
            (Reserving(t)' /\ ~Reserving(t)) =>
                /\ \A u \in Threads \ {t} :
                        Reserving(u) => th[u].slot # th'[t].slot
                /\ th'[t].pc = "read" =>
                        /\ buffer[th'[t].slot].stamp = head
                        /\ buffer[th'[t].slot].msg \in Queued
                /\ th'[t].pc = "write" =>
                        /\ buffer[th'[t].slot].stamp = tail
                        /\ buffer[th'[t].slot].msg \notin Queued]_vars

\* A send and a receive hold reservations at once, on different slots.
C15_Witness ==
    \E t, u \in Threads :
        /\ th[t].pc = "write" /\ th[u].pc = "read"
        /\ th[t].slot # th[u].slot

\* A receive waits on the slot a send has reserved and not yet published.
C15_WitnessWaits ==
    \E t, u \in Threads :
        /\ th[t].pc = "write" /\ th[u].op \in RecvOps /\ th[u].pc = "sr_tail"
        /\ Index(th[u].head) = th[t].slot

\* The lap of a stamp, counted in laps.
LapNo(s) == s \div one_lap

\* C16: the lap of head is odd, the lap of tail is even, and the index of
\* each is below cap.
C16_WellFormedStamps ==
    /\ LapNo(head) % 2 = 1
    /\ LapNo(tail) % 2 = 0
    /\ Index(head) < cap
    /\ Index(tail) < cap

\* At capacity 3 the tail has wrapped from index 2 to the next even lap and
\* the head has moved on within its lap.
C16_Witness ==
    cap = 3 /\ tail = 2 * one_lap /\ head = one_lap + 2

\* A thread holds a reservation on slot i.
Held(i) == \E t \in Threads : Reserving(t) /\ th[t].slot = i

\* C17: the index of the stamp of slot i is i; while no thread holds a
\* reservation on slot i, the slot holds a message that was sent and not
\* received exactly if the lap of its stamp is odd, and then the stamp is
\* the stamp under which the message was sent plus one lap, the head that
\* reads it; the slot is empty exactly if the lap is even, and the stamp of
\* the empty slot at the index of the tail is the tail.
C17_SlotStamps ==
    \A i \in 0..(cap - 1) :
        /\ Index(buffer[i].stamp) = i
        /\ ~Held(i) =>
            /\ buffer[i].msg \in Queued <=> LapNo(buffer[i].stamp) % 2 = 1
            /\ buffer[i].msg \in Queued =>
                /\ \E k \in 1..Len(sendLog) :
                    /\ sendLog[k].id = buffer[i].msg
                    /\ buffer[i].stamp = wrapping_add(sendLog[k].stamp, one_lap)
                /\ i = Index(head) => buffer[i].stamp = head
            /\ (buffer[i].msg \notin Queued /\ i = Index(tail)) =>
                    buffer[i].stamp = tail

\* At capacity 3, slot 0 is empty for the second lap, slot 1 holds a message
\* and slot 2 is reserved by a send.
C17_Witness ==
    /\ cap = 3
    /\ buffer[0].stamp = 2 * one_lap /\ ~Held(0)
    /\ buffer[1].msg \in Queued /\ ~Held(1)
    /\ Held(2)

\* C18: on a machine word narrow enough for head and tail to overflow it,
\* every message is still delivered once and in the order of the sends, and
\* no two threads hold a reservation on the same slot.
C18_WrapHarmless ==
    /\ C1_ExactlyOnce
    /\ C2_Fifo
    /\ \A t, u \in Threads :
            (Reserving(t) /\ Reserving(u) /\ th[t].slot = th[u].slot) => t = u

\* The channel is full, or empty, by the count of the reservations won.
NowFull == Len(sendLog) - Len(recvLog) = cap

NowEmpty == Len(sendLog) = Len(recvLog)

\* C19: is_full() and is_empty(), as send and recv call them before parking.
\* When is_full() returns true the channel is full at its second load; when
\* it returns false the channel is not full at its second load, or the tail
\* has moved since its first load, and the tail only moves from a state
\* that is not full. When is_empty() returns true the channel is empty at
\* its second load; when it returns false the channel is not empty at its
\* second load, or the head has moved since its first load, and the head
\* only moves from a state that is not empty.
C19_FullEmptySnapshots ==
    [][/\ \A t \in Threads :
            /\ (th[t].pc = "s_full_head" /\ th'[t].pc = "s_wait") => NowFull
            /\ (th[t].pc = "s_full_head" /\ th'[t].pc = "s_abort") =>
                    ~NowFull \/ th[t].tail # tail
            /\ (th[t].pc = "r_empty_tail" /\ th'[t].pc = "r_closed") => NowEmpty
            /\ (th[t].pc = "r_empty_tail" /\ th'[t].pc = "r_abort") =>
                    ~NowEmpty \/ th[t].head # head
       /\ tail' # tail => ~NowFull
       /\ head' # head => ~NowEmpty]_vars

\* is_full() has returned false to a sender, and the channel is full again
\* with every other thread between calls.
C19_Witness ==
    \E t \in Threads :
        /\ th[t].pc = "s_abort" /\ NowFull /\ select[t] = "Waiting"
        /\ \A u \in Threads \ {t} : Idle(u)

\* The number of entries of thread t in a registry.
Hooks(q, t) == Cardinality({i \in 1..Len(q) : q[i] = t})

\* C20: unregister never finds the hook missing; wait_until returns with
\* something selected; when it returns Aborted or Closed the thread's hook
\* is in the registry, once, and the thread goes on to unregister it; when
\* it returns Operation the hook is gone; a thread between calls has no hook
\* in either registry.
C20_ParkingProtocol ==
    /\ [](\A t \in Threads :
            /\ th[t].pc # "panic"
            /\ Hooks(senders, t) <= 1 /\ Hooks(receivers, t) <= 1
            /\ th[t].pc = "s_unreg" => Hooks(senders, t) = 1
            /\ th[t].pc = "r_unreg" => Hooks(receivers, t) = 1
            /\ Idle(t) => Hooks(senders, t) = 0 /\ Hooks(receivers, t) = 0)
    /\ [][\A t \in Threads :
            /\ (th[t].pc = "s_wait" /\ th'[t].pc # "s_wait") =>
                /\ select[t] # "Waiting"
                /\ select[t] = "Operation" =>
                        Hooks(senders, t) = 0 /\ th'[t].pc = "ss_closed"
                /\ select[t] \in {"Aborted", "Closed"} =>
                        Hooks(senders, t) = 1 /\ th'[t].pc = "s_unreg"
            /\ (th[t].pc = "r_wait" /\ th'[t].pc # "r_wait") =>
                /\ select[t] # "Waiting"
                /\ select[t] = "Operation" =>
                        Hooks(receivers, t) = 0 /\ th'[t].pc = "sr_head"
                /\ select[t] \in {"Aborted", "Closed"} =>
                        Hooks(receivers, t) = 1 /\ th'[t].pc = "r_unreg"]_vars

\* A recv woken by close has unregistered and returned Disconnected.
C20_Witness ==
    /\ ret.op = "recv" /\ ret.res = "Disconnected"
    /\ select[ret.t] = "Closed"

\* A send woken by the wake_one of a read has returned.
C20_WitnessOperation ==
    ret.op = "send" /\ ret.res = "Ok" /\ select[ret.t] = "Operation"

\* C21: once a recv or try_recv has returned Disconnected, no receive wins
\* the head any more, so no recv or try_recv that takes its message after
\* that return returns one.
C21_DisconnectedStable ==
    [][disconnected => recvLog' = recvLog]_vars

====
